---- MODULE Spec2Model ----
(***************************************************************************)
(* The currency swap form (CurrencySwap, SwapForm.tsx): the price fetch    *)
(* that builds the rate table and the currency list, and the input-change  *)
(* handler that converts an amount between two currencies.                 *)
(*                                                                         *)
(* Text (the amount typed by the user, a price given as a JSON string, the *)
(* converted amount) is a sequence of one-character strings.  A JavaScript *)
(* number is a record [k, n, d]: k is "fin" (the rational n/d in lowest    *)
(* terms, d > 0), "NaN", "Inf" (n is the sign) or "undefined" (the value   *)
(* of a missing property).  Arithmetic on finite numbers is exact: the     *)
(* rounding of IEEE doubles is not modelled.                               *)
(***************************************************************************)
EXTENDS Integers, Sequences, FiniteSets, TLC

VARIABLES loading, prices, currencies, formData, pc, response, newMockData

vars == <<loading, prices, currencies, formData, pc, response, newMockData>>

(***************************************************************************)
(* Bounds of the model.                                                    *)
(***************************************************************************)
\* longest price list the catalog specification fetches
MaxLen == 3
\* longest price list the form specification fetches
MaxFormLen == 2

\* number of digits toFixed writes after the decimal point
FractionDigits == 6

(***************************************************************************)
(* JavaScript values.                                                      *)
(***************************************************************************)
Abs(x) == IF x < 0 THEN -x ELSE x

RECURSIVE Gcd(_, _)
Gcd(a, b) == IF b = 0 THEN a ELSE Gcd(b, a % b)

RECURSIVE Pow10(_)
Pow10(k) == IF k = 0 THEN 1 ELSE 10 * Pow10(k - 1)

NaN == [k |-> "NaN", n |-> 0, d |-> 1]
Undefined == [k |-> "undefined", n |-> 0, d |-> 1]
Inf(sign) == [k |-> "Inf", n |-> sign, d |-> 1]

\* the finite number n/d (d > 0), in lowest terms
Fin(n, d) ==
    LET g == Gcd(Abs(n), d)
    IN  [k |-> "fin", n |-> n \div g, d |-> d \div g]

Zero == Fin(0, 1)

Sign(x) == IF x.n < 0 THEN -1 ELSE 1

\* ToBoolean of a number or of undefined
NumTruthy(x) == x.k = "Inf" \/ (x.k = "fin" /\ x.n # 0)

\* x * y
Mul(x, y) ==
    IF x.k \in {"NaN", "undefined"} \/ y.k \in {"NaN", "undefined"} THEN NaN
    ELSE IF x.k = "Inf" \/ y.k = "Inf"
         THEN IF x.n = 0 \/ y.n = 0 THEN NaN ELSE Inf(Sign(x) * Sign(y))
    ELSE Fin(x.n * y.n, x.d * y.d)

\* x / y
Div(x, y) ==
    IF x.k \in {"NaN", "undefined"} \/ y.k \in {"NaN", "undefined"} THEN NaN
    ELSE IF x.k = "Inf"
         THEN IF y.k = "Inf" THEN NaN ELSE Inf(Sign(x) * Sign(y))
    ELSE IF y.k = "Inf" THEN Zero
    ELSE IF y.n = 0
         THEN IF x.n = 0 THEN NaN ELSE Inf(Sign(x))
    ELSE Fin(x.n * y.d * Sign(y), x.d * Abs(y.n))

(***************************************************************************)
(* Text.                                                                   *)
(***************************************************************************)
DigitChars == <<"0", "1", "2", "3", "4", "5", "6", "7", "8", "9">>

IsDigit(c) == \E i \in 1..10 : DigitChars[i] = c

DigitValue(c) == (CHOOSE i \in 1..10 : DigitChars[i] = c) - 1

Text(word) ==
    CASE word = "NaN" -> <<"N", "a", "N">>
      [] word = "Infinity" -> <<"I", "n", "f", "i", "n", "i", "t", "y">>
      [] word = "undefined" -> <<"u", "n", "d", "e", "f", "i", "n", "e", "d">>

\* the decimal digits of a natural number
RECURSIVE NatToText(_)
NatToText(m) ==
    IF m < 10 THEN <<DigitChars[m + 1]>>
    ELSE NatToText(m \div 10) \o <<DigitChars[(m % 10) + 1]>>

\* the last `width` decimal digits of m, zero padded
RECURSIVE PadDigits(_, _)
PadDigits(m, width) ==
    IF width = 0 THEN <<>>
    ELSE PadDigits(m \div 10, width - 1) \o <<DigitChars[(m % 10) + 1]>>

\* length of the longest prefix of s[from..] made of digits
RECURSIVE DigitRun(_, _)
DigitRun(s, from) ==
    IF from <= Len(s) /\ IsDigit(s[from]) THEN 1 + DigitRun(s, from + 1) ELSE 0

\* the natural number written by the digits s[from .. from + count - 1]
RECURSIVE DigitsToNat(_, _, _)
DigitsToNat(s, from, count) ==
    IF count = 0 THEN 0
    ELSE 10 * DigitsToNat(s, from, count - 1) + DigitValue(s[from + count - 1])

\* parseFloat on text: an optional sign, digits, an optional fraction; the
\* characters after the numeric prefix are ignored; NaN without such a prefix
\* (exponents, leading blanks and the word Infinity are outside the alphabet
\* of the model).
ParseFloat(s) ==
    LET signed == Len(s) >= 1 /\ s[1] \in {"-", "+"}
        sign == IF Len(s) >= 1 /\ s[1] = "-" THEN -1 ELSE 1
        start == IF signed THEN 2 ELSE 1
        intLen == DigitRun(s, start)
        dot == start + intLen
        hasDot == dot <= Len(s) /\ s[dot] = "."
        fracLen == IF hasDot THEN DigitRun(s, dot + 1) ELSE 0
        intPart == DigitsToNat(s, start, intLen)
        fracPart == DigitsToNat(s, dot + 1, fracLen)
    IN  IF intLen = 0 /\ fracLen = 0 THEN NaN
        ELSE Fin(sign * (intPart * Pow10(fracLen) + fracPart), Pow10(fracLen))

\* Number.prototype.toFixed(digits), for magnitudes below 10^21
ToFixed(x, digits) ==
    IF x.k \in {"NaN", "undefined"} THEN Text("NaN")
    ELSE IF x.k = "Inf"
         THEN (IF x.n < 0 THEN <<"-">> ELSE <<>>) \o Text("Infinity")
    ELSE LET scale == Pow10(digits)
             \* the integer m with m / 10^digits closest to |x|; the larger on a tie
             m == (2 * Abs(x.n) * scale + x.d) \div (2 * x.d)
         IN  (IF x.n < 0 THEN <<"-">> ELSE <<>>)
                 \o NatToText(m \div scale)
                 \o (IF digits = 0 THEN <<>> ELSE <<".">> \o PadDigits(m % scale, digits))

(***************************************************************************)
(* Price observations, as the JSON of the price list gives them.           *)
(* A price is [t, n, s]: absent (t = "undefined"), the number n, or the    *)
(* text s.                                                                 *)
(***************************************************************************)
NoPrice == [t |-> "undefined", n |-> 0, s |-> <<>>]
NumPrice(n) == [t |-> "number", n |-> n, s |-> <<>>]
TextPrice(s) == [t |-> "string", n |-> 0, s |-> s]

Unparseable == <<"a", "b", "c">>

\* ToBoolean of a price (line 75)
PriceTruthy(p) ==
    \/ p.t = "number" /\ p.n # 0
    \/ p.t = "string" /\ p.s # <<>>

\* ToString of a price, the argument conversion of parseFloat (line 76)
PriceToText(p) ==
    CASE p.t = "undefined" -> Text("undefined")
      [] p.t = "string" -> p.s
      [] p.t = "number" -> (IF p.n < 0 THEN <<"-">> ELSE <<>>) \o NatToText(Abs(p.n))

Currencies == {"A", "B"}
Dates == {"d1", "d2"}

\* the prices of the catalog specification: absent, numbers, text that does not parse
CatalogPrices ==
    {NoPrice, NumPrice(1), NumPrice(2), NumPrice(99), TextPrice(Unparseable)}

\* the prices of the price specification: absent, zero, positive, negative, unparseable
AnyPrices ==
    {NoPrice, NumPrice(0), NumPrice(1), NumPrice(-1), TextPrice(Unparseable)}

FormPrices ==
    {NumPrice(1), NumPrice(2), NumPrice(3), NumPrice(4), TextPrice(Unparseable)}

Observations(dates, priceSet) ==
    [currency : Currencies, date : dates, price : priceSet]

\* the sequences over S of length at most n
SeqUpTo(S, n) == UNION {[1..k -> S] : k \in 0..n}

(***************************************************************************)
(* removeDuplicates (lines 45-58).  The Map is a sequence of entries in    *)
(* insertion order.                                                        *)
(***************************************************************************)
\* the template literal of line 50; the symbols of the model hold no "-"
Key(item) == <<item.currency, "-", item.date>>

MapHas(map, key) == \E i \in 1..Len(map) : map[i].key = key

\* Map.prototype.set: a new key is appended, a known key keeps its position
MapSet(map, key, value) ==
    IF MapHas(map, key)
    THEN [i \in 1..Len(map) |->
            IF map[i].key = key THEN [key |-> key, value |-> value] ELSE map[i]]
    ELSE Append(map, [key |-> key, value |-> value])

\* the Map after the first k items of data went through the forEach
RECURSIVE UniqueMap_Overwrite(_, _)
UniqueMap_Overwrite(data, k) ==
    IF k = 0 THEN <<>>
    ELSE MapSet(UniqueMap_Overwrite(data, k - 1), Key(data[k]), data[k])

RECURSIVE UniqueMap(_, _)
UniqueMap(data, k) ==
    IF k = 0 THEN <<>>
    ELSE LET map == UniqueMap(data, k - 1)
             key == Key(data[k])
         IN  IF ~MapHas(map, key) THEN MapSet(map, key, data[k]) ELSE map

MapValues(map) == [i \in 1..Len(map) |-> map[i].value]

\* removeDuplicates without the has() test: the last occurrence overwrites
RemoveDuplicates_Overwrite(data) == MapValues(UniqueMap_Overwrite(data, Len(data)))

RemoveDuplicates(data) == MapValues(UniqueMap(data, Len(data)))

(***************************************************************************)
(* The processing loop of fetchPrices (lines 71-87).                       *)
(***************************************************************************)
EmptyMap == [c \in {} |-> Zero]

\* an assignment that keeps a rate already stored
SetRate_KeepFirst(map, currency, rate) ==
    IF currency \in DOMAIN map THEN map
    ELSE [c \in DOMAIN map \cup {currency} |-> IF c = currency THEN rate ELSE map[c]]

\* priceMap[item.currency] = ... (line 76)
SetRate(map, currency, rate) ==
    [c \in DOMAIN map \cup {currency} |-> IF c = currency THEN rate ELSE map[c]]

mapIncorrectObj ==
    [STEVMOS |-> "stEVMos", RATOM |-> "rATOM", STOSMO |-> "stOSMO",
     STATOM |-> "stATOM", STLUNA |-> "stLUNA"]

IconName(currency) ==
    IF currency \in DOMAIN mapIncorrectObj THEN mapIncorrectObj[currency] ELSE currency

IconUrl(currency) ==
    <<"https://raw.githubusercontent.com/Switcheo/token-icons/main/tokens/",
      IconName(currency), ".svg">>

\* priceMap after the first k items of the deduplicated list
RECURSIVE PriceMap(_, _)
PriceMap(list, k) ==
    IF k = 0 THEN EmptyMap
    ELSE LET map == PriceMap(list, k - 1)
             item == list[k]
         IN  IF PriceTruthy(item.price)
             THEN SetRate(map, item.currency, ParseFloat(PriceToText(item.price)))
             ELSE map

\* availableCurrencies after the first k items of the deduplicated list
RECURSIVE AvailableCurrencies(_, _)
AvailableCurrencies(list, k) ==
    IF k = 0 THEN <<>>
    ELSE LET acc == AvailableCurrencies(list, k - 1)
             item == list[k]
         IN  IF PriceTruthy(item.price)
             THEN Append(acc, [currency |-> item.currency,
                               iconUrl |-> IconUrl(item.currency)])
             ELSE acc

(***************************************************************************)
(* The response of the price endpoint (lines 63-69).  status: the fetch    *)
(* rejected, answered with a non-OK status, or answered OK.  json: the     *)
(* body is no JSON, JSON that is no array, an array holding a null, or an  *)
(* array of observations (data).                                           *)
(***************************************************************************)
JsonKinds == {"invalid", "notArray", "nullItem", "array"}

NoResponse == [status |-> "none", json |-> "invalid", data |-> <<>>]
Rejected == [status |-> "rejected", json |-> "invalid", data |-> <<>>]

Answers(lists, errorLists) ==
    [status : {"ok"}, json : {"array"}, data : lists]
        \cup [status : {"ok"}, json : JsonKinds \ {"array"}, data : {<<>>}]
        \cup [status : {"notOk"}, json : {"array"}, data : errorLists]
        \cup [status : {"notOk"}, json : JsonKinds \ {"array"}, data : {<<>>}]

CatalogAnswers ==
    Answers(SeqUpTo(Observations(Dates, CatalogPrices), MaxLen),
            SeqUpTo(Observations({"d1"}, {NoPrice, NumPrice(1)}), 1))

PriceAnswers ==
    Answers(SeqUpTo(Observations({"d1"}, AnyPrices), MaxLen),
            SeqUpTo(Observations({"d1"}, {NoPrice, NumPrice(1)}), 1))

FormAnswers ==
    Answers(SeqUpTo(Observations({"d1"}, FormPrices), MaxFormLen),
            SeqUpTo(Observations({"d1"}, {NoPrice, NumPrice(1)}), 1))

\* a fetch that never looks at response.ok
ResponseAccepted_AnyStatus(r) == TRUE

\* line 66: a non-OK answer throws
ResponseAccepted(r) == r.status = "ok"

\* data.forEach throws on a body that is no array, item.currency on a null
\* item (lines 49-50)
ProcessThrows(r) == r.json \in {"notArray", "nullItem"}

(***************************************************************************)
(* The form (lines 38-43, 102-128).                                        *)
(***************************************************************************)
\* the value of a currency field nothing was selected for
Unset == "undefined"

EmptyText == <<>>

AmountTexts ==
    {EmptyText, <<"a", "b", "c">>, <<"1", "0">>, <<"4">>, <<"0", "a", "b", "c">>}

Fields == {"fromCurrency", "toCurrency", "fromAmount"}

\* the values the call sites pass for a field (lines 157, 182, 193)
FieldValues(field) ==
    IF field = "fromAmount" THEN AmountTexts ELSE Currencies \cup {Unset}

\* ToBoolean of a currency field
Selected(currency) == currency # Unset /\ currency # ""

\* prices[currency]
Lookup(rates, currency) ==
    IF currency \in DOMAIN rates THEN rates[currency] ELSE Undefined

\* x || 0
OrZero(x) == IF NumTruthy(x) THEN x ELSE Zero

FromRate(rates, form) == OrZero(Lookup(rates, form.fromCurrency))
ToRate(rates, form) == Lookup(rates, form.toCurrency)

\* lines 117-118
Result(rates, form) ==
    LET amountInUSD == Mul(ParseFloat(form.fromAmount), FromRate(rates, form))
    IN  ToFixed(Div(amountInUSD, ToRate(rates, form)), FractionDigits)

\* an update that does not test the amount
ShouldUpdate_NoAmount(fromRate, toRate, fromAmount) ==
    NumTruthy(fromRate) /\ NumTruthy(toRate)

\* line 120
ShouldUpdate(fromRate, toRate, fromAmount) ==
    NumTruthy(fromRate) /\ NumTruthy(toRate) /\ fromAmount # EmptyText

\* whether the handler reaches setFormData of line 121 with newFormData
Updates(rates, form) ==
    /\ Selected(form.fromCurrency)
    /\ Selected(form.toCurrency)
    /\ ShouldUpdate(FromRate(rates, form), ToRate(rates, form), form.fromAmount)

\* a handler that swaps the two rates
Convert_Swapped(rates, form) ==
    LET swapped == [form EXCEPT !.fromCurrency = form.toCurrency,
                                !.toCurrency = form.fromCurrency]
    IN  IF Updates(rates, form)
        THEN [form EXCEPT !.toAmount = Result(rates, swapped)]
        ELSE form

\* a handler that blanks the converted amount of an incomplete form
Convert_Clearing(rates, form) ==
    IF Updates(rates, form)
    THEN [form EXCEPT !.toAmount = Result(rates, form)]
    ELSE [form EXCEPT !.toAmount = EmptyText]

\* the form data after lines 106-127 ran on newFormData
Convert(rates, form) ==
    IF Updates(rates, form)
    THEN [form EXCEPT !.toAmount = Result(rates, form)]
    ELSE form

(***************************************************************************)
(* The state machine.  pc is the position of fetchPrices.  Each setState   *)
(* call after the await is a step of its own: outside a batch every one of *)
(* them renders.                                                           *)
(***************************************************************************)
Init ==
    /\ loading = TRUE
    /\ prices = EmptyMap
    /\ currencies = <<>>
    /\ formData = [fromCurrency |-> Unset, toCurrency |-> Unset,
                   fromAmount |-> EmptyText, toAmount |-> EmptyText]
    /\ pc = "fetch"
    /\ response = NoResponse
    /\ newMockData = <<>>

\* line 63: the promise of fetch rejects; the catch block swallows it
FetchRejects ==
    /\ pc = "fetch"
    /\ response' = Rejected
    /\ pc' = "finally"
    /\ UNCHANGED <<loading, prices, currencies, formData, newMockData>>

\* line 63: the endpoint answers
FetchResolves(answers) ==
    /\ pc = "fetch"
    /\ \E r \in answers : response' = r
    /\ pc' = "status"
    /\ UNCHANGED <<loading, prices, currencies, formData, newMockData>>

\* lines 66-68
CheckStatus ==
    /\ pc = "status"
    /\ pc' = IF ResponseAccepted(response) THEN "json" ELSE "finally"
    /\ UNCHANGED <<loading, prices, currencies, formData, response, newMockData>>

\* line 69
ParseJson ==
    /\ pc = "json"
    /\ pc' = IF response.json = "invalid" THEN "finally" ELSE "process"
    /\ UNCHANGED <<loading, prices, currencies, formData, response, newMockData>>

\* lines 71-89: the processing, then setPrices
Process ==
    /\ pc = "process"
    /\ IF ProcessThrows(response)
       THEN /\ pc' = "finally"
            /\ UNCHANGED <<prices, newMockData>>
       ELSE /\ newMockData' = RemoveDuplicates(response.data)
            /\ prices' = PriceMap(newMockData', Len(newMockData'))
            /\ pc' = "setCurrencies"
    /\ UNCHANGED <<loading, currencies, formData, response>>

\* setCurrencies and setLoading in the wrong order
SetCurrencies_LoadingFirst ==
    /\ pc = "setCurrencies"
    /\ loading' = FALSE
    /\ pc' = "setLoading"
    /\ UNCHANGED <<prices, currencies, formData, response, newMockData>>

\* line 90
SetCurrencies ==
    /\ pc = "setCurrencies"
    /\ currencies' = AvailableCurrencies(newMockData, Len(newMockData))
    /\ pc' = "setLoading"
    /\ UNCHANGED <<loading, prices, formData, response, newMockData>>

\* line 91
SetLoading ==
    /\ pc = "setLoading"
    /\ loading' = FALSE
    /\ pc' = "finally"
    /\ UNCHANGED <<prices, currencies, formData, response, newMockData>>

\* line 95
Finally ==
    /\ pc = "finally"
    /\ loading' = FALSE
    /\ pc' = "done"
    /\ UNCHANGED <<prices, currencies, formData, response, newMockData>>

\* lines 102-128; the form is rendered, and its handlers run, only once
\* loading is false (line 130)
HandleInputChange ==
    /\ loading = FALSE
    /\ \E field \in Fields : \E value \in FieldValues(field) :
          LET newFormData == [formData EXCEPT ![field] = value]
          IN  formData' = Convert(prices, newFormData)
    /\ UNCHANGED <<loading, prices, currencies, response, newMockData, pc>>

FetchSteps ==
    \/ FetchRejects
    \/ CheckStatus
    \/ ParseJson
    \/ Process
    \/ SetCurrencies
    \/ SetLoading
    \/ Finally

Next ==
    \/ FetchResolves(FormAnswers)
    \/ FetchSteps
    \/ HandleInputChange

Spec == Init /\ [][Next]_vars

\* the price fetch alone, over longer price lists
NextCatalog ==
    \/ FetchResolves(CatalogAnswers)
    \/ FetchSteps

SpecCatalog == Init /\ [][NextCatalog]_vars

\* the price fetch alone, over every kind of price
NextPrices ==
    \/ FetchResolves(PriceAnswers)
    \/ FetchSteps

SpecPrices == Init /\ [][NextPrices]_vars

(***************************************************************************)
(* Vocabulary of the properties.                                           *)
(***************************************************************************)
\* fetchPrices got past the processing of an OK answer holding an array
Processed ==
    /\ response.status = "ok"
    /\ response.json = "array"
    /\ pc \in {"setCurrencies", "setLoading", "finally", "done"}

\* the fetch failed: rejected, non-OK, or a body that does not parse or process
Failed ==
    \/ response.status \in {"rejected", "notOk"}
    \/ response.status = "ok" /\ response.json # "array"

\* the rate an observation's price stands for
RateOf(item) == ParseFloat(PriceToText(item.price))

\* the positions of data that hold the first observation of their (currency, date)
FirstPositions(data) ==
    {i \in 1..Len(data) :
        \A j \in 1..(i - 1) :
            ~(data[j].currency = data[i].currency /\ data[j].date = data[i].date)}

\* the items of data at the positions of P, in the order of data
RECURSIVE Restrict(_, _, _)
Restrict(data, P, k) ==
    IF k = 0 THEN <<>>
    ELSE IF k \in P THEN Append(Restrict(data, P, k - 1), data[k])
    ELSE Restrict(data, P, k - 1)

\* the positions of list that hold a priced observation of currency
PricedPositions(list, currency) ==
    {i \in 1..Len(list) : list[i].currency = currency /\ PriceTruthy(list[i].price)}

\* the positions of list that hold an observation of currency
Positions(list, currency) == {i \in 1..Len(list) : list[i].currency = currency}

\* every observation of data has a positive number for its price
WellPriced(data) ==
    \A i \in 1..Len(data) : data[i].price.t = "number" /\ data[i].price.n > 0

Min(S) == CHOOSE x \in S : \A y \in S : x <= y
Max(S) == CHOOSE x \in S : \A y \in S : x >= y

Obs(currency, date, price) == [currency |-> currency, date |-> date, price |-> price]

ExampleList ==
    <<Obs("A", "d1", NumPrice(1)), Obs("A", "d1", NumPrice(99)), Obs("B", "d1", NumPrice(2))>>

\* the form is complete: both currencies have a truthy rate, the amount is not empty
Complete(rates, form) ==
    /\ form.fromCurrency \in DOMAIN rates
    /\ form.toCurrency \in DOMAIN rates
    /\ NumTruthy(rates[form.fromCurrency])
    /\ NumTruthy(rates[form.toCurrency])
    /\ form.fromAmount # EmptyText

(***************************************************************************)
(* C1.  Update policy: an input change that leaves fromCurrency unset or   *)
(* without a truthy rate, toCurrency unset or without a truthy rate, or    *)
(* fromAmount empty, leaves the converted amount as it was.                *)
(***************************************************************************)
C1_UpdatePolicy ==
    [][~Complete(prices, formData') => formData'.toAmount = formData.toAmount]_vars

\* both currencies have a rate, the amount was emptied, the converted amount is kept
C1_Witness ==
    /\ formData.toAmount # EmptyText
    /\ formData.fromAmount = EmptyText
    /\ formData.fromCurrency \in DOMAIN prices
    /\ formData.toCurrency \in DOMAIN prices
    /\ NumTruthy(prices[formData.fromCurrency])
    /\ NumTruthy(prices[formData.toCurrency])

(***************************************************************************)
(* C2.  First-wins deduplication: the deduplicated list is the input       *)
(* restricted to the first observation of each (currency, date) pair, so   *)
(* every rate of the table is the rate of such a first observation; the    *)
(* list (A,d1,1), (A,d1,99), (B,d1,2) gives the table A: 1, B: 2.          *)
(***************************************************************************)
C2_FirstWins ==
    Processed =>
        LET data == response.data
            first == FirstPositions(data)
        IN  /\ newMockData = Restrict(data, first, Len(data))
            /\ \A c \in DOMAIN prices :
                  \E i \in first : data[i].currency = c /\ prices[c] = RateOf(data[i])
            /\ data = ExampleList =>
                  prices = [c \in {"A", "B"} |-> IF c = "A" THEN Fin(1, 1) ELSE Fin(2, 1)]

C2_Witness ==
    /\ Processed
    /\ response.data = ExampleList
    /\ Len(newMockData) = 2

(***************************************************************************)
(* C3, as stated.  A currency with several priced observations in the      *)
(* deduplicated list gets the rate of the first of them (stated for the    *)
(* lists of which every price is a positive number).                       *)
(***************************************************************************)
C3_FirstDateWins ==
    (Processed /\ WellPriced(response.data)) =>
        \A c \in DOMAIN prices :
            prices[c] = RateOf(newMockData[Min(PricedPositions(newMockData, c))])

(***************************************************************************)
(* C3, amended.  A currency with several priced observations in the        *)
(* deduplicated list gets the rate of the last of them: each later priced  *)
(* observation overwrites the rate stored before.                          *)
(***************************************************************************)
C3_LastDateWins ==
    Processed =>
        /\ DOMAIN prices = {c \in Currencies : PricedPositions(newMockData, c) # {}}
        /\ \A c \in DOMAIN prices :
              prices[c] = RateOf(newMockData[Max(PricedPositions(newMockData, c))])

\* a currency with two priced observations that stand for different rates
C3_Witness ==
    /\ Processed
    /\ \E c \in DOMAIN prices :
          LET P == PricedPositions(newMockData, c)
          IN  /\ Cardinality(P) >= 2
              /\ RateOf(newMockData[Min(P)]) # RateOf(newMockData[Max(P)])

(***************************************************************************)
(* C4.  Currency list shape: once the list is stored it holds exactly one  *)
(* entry per key of the rate table, ordered by the first position of each  *)
(* currency in the input (stated for the lists of which every price is a   *)
(* positive number).                                                       *)
(***************************************************************************)
C4_OneEntryPerCurrency ==
    (Processed /\ pc \in {"setLoading", "finally", "done"}
               /\ WellPriced(response.data)) =>
        /\ {currencies[i].currency : i \in 1..Len(currencies)} = DOMAIN prices
        /\ \A i, j \in 1..Len(currencies) :
              i # j => currencies[i].currency # currencies[j].currency
        /\ \A i, j \in 1..Len(currencies) :
              i < j => Min(Positions(response.data, currencies[i].currency))
                         < Min(Positions(response.data, currencies[j].currency))

(***************************************************************************)
(* C5.  Rate table validity: every key of the rate table maps to a         *)
(* positive finite rate.                                                   *)
(***************************************************************************)
C5_PositiveRates ==
    Processed => \A c \in DOMAIN prices : prices[c].k = "fin" /\ prices[c].n > 0

(***************************************************************************)
(* C6.  Unparsable amount: the converted amount never becomes the text     *)
(* NaN or Infinity (an amount without a numeric prefix leaves it as it     *)
(* was).                                                                   *)
(***************************************************************************)
C6_NeverNaN ==
    formData.toAmount \notin
        {Text("NaN"), Text("Infinity"), <<"-">> \o Text("Infinity")}

(***************************************************************************)
(* C7, as stated.  The displayed converted amount is the initial empty     *)
(* value or the conversion of the current fromAmount, fromCurrency and     *)
(* toCurrency; an incomplete form shows no amount of earlier inputs.       *)
(***************************************************************************)
C7_NoStaleValue ==
    \/ formData.toAmount = EmptyText
    \/ /\ Complete(prices, formData)
       /\ formData.toAmount = Result(prices, formData)

(***************************************************************************)
(* C7, amended.  Every input change either leaves the displayed converted  *)
(* amount as it was or, when it leaves the form complete, replaces it by   *)
(* the text computed from the new fromAmount, fromCurrency and toCurrency  *)
(* (NaN for an amount without a numeric prefix).                           *)
(***************************************************************************)
C7_KeptOrCurrent ==
    [][\/ formData'.toAmount = formData.toAmount
       \/ /\ Complete(prices, formData')
          /\ formData'.toAmount = Result(prices, formData')]_vars

\* a complete form became incomplete and still shows the earlier amount
C7_Witness ==
    /\ formData.toAmount = <<"5", ".", "0", "0", "0", "0", "0", "0">>
    /\ formData.fromAmount = EmptyText
    /\ formData.fromCurrency = "A"
    /\ formData.toCurrency = "B"

(***************************************************************************)
(* C8.  Conversion correctness: with both currencies at a positive rate    *)
(* and an amount that parses to a number a, the converted amount is        *)
(* a * rate[from] / rate[to] written with exactly 6 digits after the       *)
(* point, the closest such decimal.                                        *)
(***************************************************************************)
\* text is [-]digits.dddddd
SixDecimals(text) ==
    LET body == IF Len(text) >= 1 /\ text[1] = "-" THEN Tail(text) ELSE text
        point == Len(body) - 6
    IN  /\ point >= 2
        /\ body[point] = "."
        /\ \A i \in 1..Len(body) : i # point => IsDigit(body[i])

\* the number v is within half a millionth of num / den (den > 0)
Closest(v, num, den) ==
    /\ v.k = "fin"
    /\ 2 * 1000000 * Abs(v.n * den - num * v.d) <= v.d * den

C8_Conversion ==
    LET from == formData.fromCurrency
        to == formData.toCurrency
        a == ParseFloat(formData.fromAmount)
    IN  (/\ loading = FALSE
         /\ from \in DOMAIN prices /\ prices[from].k = "fin" /\ prices[from].n > 0
         /\ to \in DOMAIN prices /\ prices[to].k = "fin" /\ prices[to].n > 0
         /\ a.k = "fin")
        =>
        /\ SixDecimals(formData.toAmount)
        /\ Closest(ParseFloat(formData.toAmount),
                   a.n * prices[from].n * prices[to].d,
                   a.d * prices[from].d * prices[to].n)
        /\ (/\ prices[from] = Fin(2, 1) /\ prices[to] = Fin(4, 1)
            /\ formData.fromAmount = <<"1", "0">>)
              => formData.toAmount = <<"5", ".", "0", "0", "0", "0", "0", "0">>
        /\ (/\ prices[from] = Fin(1, 1) /\ prices[to] = Fin(2, 1)
            /\ formData.fromAmount = <<"4">>)
              => formData.toAmount = <<"2", ".", "0", "0", "0", "0", "0", "0">>

\* rates A: 2, B: 3, amount 10, A to B: a result that needs rounding
C8_Witness ==
    /\ loading = FALSE
    /\ formData.fromCurrency = "A" /\ formData.toCurrency = "B"
    /\ "A" \in DOMAIN prices /\ "B" \in DOMAIN prices
    /\ prices["A"] = Fin(2, 1) /\ prices["B"] = Fin(3, 1)
    /\ formData.fromAmount = <<"1", "0">>
    /\ formData.toAmount = <<"6", ".", "6", "6", "6", "6", "6", "7">>

(***************************************************************************)
(* C9.  Fetch failure degrades to the empty state: after a fetch that      *)
(* rejected, answered non-OK or gave a body that does not parse or         *)
(* process, the rate table and the currency list are empty, the spinner    *)
(* goes away once fetchPrices ends, and no input change moves the          *)
(* converted amount from its initial empty value.                          *)
(***************************************************************************)
C9_FailureIsEmpty ==
    Failed =>
        /\ prices = EmptyMap
        /\ currencies = <<>>
        /\ formData.toAmount = EmptyText
        /\ pc = "done" => loading = FALSE

\* a full form after a non-OK answer
C9_Witness ==
    /\ response.status = "notOk"
    /\ response.data # <<>>
    /\ pc = "done"
    /\ formData.fromCurrency = "A"
    /\ formData.toCurrency = "B"
    /\ formData.fromAmount = <<"1", "0">>

(***************************************************************************)
(* C10.  Consistent snapshot: whenever loading is false, the currencies of *)
(* the currency list are the keys of the rate table; the states between    *)
(* setPrices and setCurrencies have loading true.                          *)
(***************************************************************************)
C10_ConsistentSnapshot ==
    loading = FALSE =>
        {currencies[i].currency : i \in 1..Len(currencies)} = DOMAIN prices

\* a rendered form over a catalog of two currencies
C10_Witness ==
    /\ loading = FALSE
    /\ DOMAIN prices = {"A", "B"}
    /\ Len(currencies) = 2
    /\ formData.fromCurrency # Unset

====
